---- MODULE Spec2Model ----
(***************************************************************************)
(* Transcript acquisition pipeline of paji/82ch.                           *)
(*                                                                         *)
(* Three scripts are modelled, each a sequential batch run over a list of  *)
(* video references:                                                       *)
(*   "T"  youtube_transcription.py       (retry controller, progress file) *)
(*   "L"  youtube_livestream_extractor.py (captions, sample fallback)      *)
(*   "G"  transcribe.py                  (audio download + speech-to-text) *)
(* and "R", get_transcript of youtube_transcription.py run on its own, as   *)
(* are some other functions ("V", "D", "F", "Y", "S", "N").                *)
(*                                                                         *)
(* Strings are sequences of tokens.  The token "W" stands for the text     *)
(* 'youtube.com/watch?v=', "S" for 'youtu.be/', "Y" for 'youtube.com/'     *)
(* without a watch path; "a", "b", "-", "_" are characters of the          *)
(* identifier alphabet; "&", "?", "x" are other characters.                *)
(***************************************************************************)
EXTENDS Integers, Sequences, FiniteSets, TLC

(* ------------------------------ bounds -------------------------------- *)
MaxRefs == 2
MaxLimit == 2
MaxRuns == 2
MaxRetries == 3
MaxFails == 3

(* ------------------------- program constants -------------------------- *)
IdLen == 11
DefaultRetryDelay == 5
DefaultApiDelay == 10

(* random.uniform(0.5, 1.5), in tenths: the two ends and the middle *)
RetryJitter == {5, 10, 15}
(* retry_delay values (seconds) the constructor is given when run alone *)
RetryDelays == {0, 1, 5}
(* --max-retries values of a whole run *)
MainRetries == {0, 2}
(* random.uniform(0.8, 1.2), in tenths: the two ends *)
ApiJitter == {8, 12}

(* ------------------------------ strings ------------------------------- *)
None == <<"None">>
Raised == <<"ValueError">>
Absent == <<"Absent">>

IdAlphabet == {"a", "b", "-", "_"}

Rep(c, n) == [i \in 1..n |-> c]

IndexOf(s, t) ==
    IF \E i \in 1..Len(s) : s[i] = t
    THEN CHOOSE i \in 1..Len(s) : s[i] = t /\ \A j \in 1..(i-1) : s[j] # t
    ELSE 0

Contains(s, t) == IndexOf(s, t) # 0

(* s.split(t)[0] *)
SplitHead(s, t) ==
    IF Contains(s, t) THEN SubSeq(s, 1, IndexOf(s, t) - 1) ELSE s

(* s.split(t)[1], for s that contains t *)
SplitSecond(s, t) ==
    SplitHead(SubSeq(s, IndexOf(s, t) + 1, Len(s)), t)

get_video_id_from_url(url) ==
    IF Contains(url, "W") THEN SplitHead(SplitSecond(url, "W"), "&")
    ELSE IF Contains(url, "S") THEN SplitHead(SplitSecond(url, "S"), "?")
    ELSE Raised

(* re.search(r'(?:youtube\.com\/watch\?v=|youtu\.be\/)([a-zA-Z0-9_-]{11})') *)
MatchAt(s, i) ==
    /\ s[i] \in {"W", "S"}
    /\ i + IdLen <= Len(s)
    /\ \A k \in 1..IdLen : s[i + k] \in IdAlphabet

extract_video_id(url) ==
    IF url = <<>> \/ url = Absent \/ ~(\E i \in 1..Len(url) : MatchAt(url, i))
    THEN None
    ELSE LET i == CHOOSE i \in 1..Len(url) :
                      MatchAt(url, i) /\ \A j \in 1..(i-1) : ~MatchAt(url, j)
         IN  SubSeq(url, i + 1, i + IdLen)

(* 'youtube.com' in value or 'youtu.be' in value *)
LooksLikeYouTube(s) == Contains(s, "W") \/ Contains(s, "Y") \/ Contains(s, "S")

(* ---------------------------- file system ----------------------------- *)
DocName(id) == id \o <<".md">>

stem(name) ==
    IF Len(name) >= 2 /\ name[Len(name)] = ".md"
    THEN SubSeq(name, 1, Len(name) - 1)
    ELSE name

get_processed_videos(dir) ==
    {stem(n) : n \in {m \in DOMAIN dir : m[Len(m)] = ".md"}}

load_progress(pf) == IF pf.state = "ok" THEN pf.ids ELSE {}

IOOutcomes == {"ok", "open_fail", "write_fail"}

(* open(progress_file, 'w') truncates; a failure is caught and logged *)
save_progress(pf, ids, io) ==
    CASE io = "ok" -> [state |-> "ok", ids |-> ids]
      [] io = "open_fail" -> pf
      [] OTHER -> [state |-> "corrupt", ids |-> {}]

(* a document of the output directory: whether its text was written to the
   end, its title line, its body, the audio the body was transcribed from
   ("" when it came from captions), and whether its header marks it as
   synthetic (no header any script writes does) *)
Doc(title, body, src) ==
    [complete |-> TRUE, title |-> title, body |-> body, src |-> src,
     synthetic |-> FALSE]

TitleT == <<"T">>

FullDoc == Doc(TitleT, "text", "")
PartialDoc ==
    [complete |-> FALSE, title |-> <<>>, body |-> "", src |-> "",
     synthetic |-> FALSE]

PutFile(dir, name, content) ==
    [n \in DOMAIN dir \cup {name} |-> IF n = name THEN content ELSE dir[n]]

(* open(file_path, 'w') then f.write(md_content) *)
save_transcript_to_file(dir, id, md, io) ==
    CASE io = "ok" -> PutFile(dir, DocName(id), md)
      [] io = "open_fail" -> dir
      [] OTHER -> PutFile(dir, DocName(id), PartialDoc)

(* ------------------------------ inputs -------------------------------- *)
IdA == Rep("a", IdLen)
IdB == Rep("b", IdLen)

(* a reference: a bare string `s`, or a mapping with some of the fields
   videoId, id, url, title; `meta` says that channelTitle and publishedAt are
   there too (the records the channel extractor writes have them all) *)
Ref(kind, s, url, id, videoId, title, meta) ==
    [kind |-> kind, s |-> s, url |-> url, id |-> id, videoId |-> videoId,
     title |-> title, meta |-> meta]

RefPool ==
    { Ref("dict", Absent, <<"W">> \o IdA, IdA, Absent, TitleT, TRUE),
      Ref("dict", Absent, <<"S">> \o IdA \o <<"?", "x">>, Absent, Absent, TitleT, TRUE),
      Ref("dict", Absent, <<"S">> \o IdB, Absent, Absent, TitleT, TRUE),
      Ref("dict", Absent, <<"x">>, Absent, Absent, TitleT, TRUE),
      Ref("str", <<"S">> \o IdB, Absent, Absent, Absent, Absent, FALSE) }

SeqsUpTo(S, n) == UNION {[1..k -> S] : k \in 0..n}

Inputs == SeqsUpTo(RefPool, MaxRefs)

(* {"id": I, "title": T} *)
RecordRef == Ref("dict", Absent, Absent, IdB, Absent, TitleT, FALSE)

ShortUrlRef == Ref("str", <<"S">> \o IdB, Absent, Absent, Absent, Absent, FALSE)

JunkStrRef == Ref("str", <<"x">>, Absent, Absent, Absent, Absent, FALSE)

UrlRecordRef == Ref("dict", Absent, <<"S">> \o IdB, Absent, Absent, TitleT, TRUE)

(* the decoded JSON input: a mapping with the list `items` under `key`
   (shape "dict"), a bare list (shape "list"), or a mapping without any
   recognised key whose values are `items` (shape "map") *)
DataShapes ==
    {[shape |-> "dict", key |-> "livestreams", items |-> l] : l \in Inputs}
    \cup {[shape |-> "dict", key |-> "videos", items |-> l] :
              l \in {<<RecordRef>>, <<UrlRecordRef, RecordRef>>}}
    \cup {[shape |-> "list", key |-> "", items |-> l] :
              l \in {<<ShortUrlRef>>, <<UrlRecordRef, ShortUrlRef>>}}
    \cup {[shape |-> "map", key |-> "", items |-> l] :
              l \in {<<JunkStrRef>>, <<JunkStrRef, ShortUrlRef>>,
                     <<UrlRecordRef, JunkStrRef>>}}

InitDirs == {<<>>, PutFile(<<>>, DocName(IdA), FullDoc)}

InitProgress ==
    { [state |-> "missing", ids |-> {}],
      [state |-> "corrupt", ids |-> {}],
      [state |-> "ok", ids |-> {IdB}] }

(* ------------------------------- stubs -------------------------------- *)
(* The upstream transcript service as a stub: it raises a transient error  *)
(* on its first `fails` calls and from then on always answers `then`.      *)
Stubs == [fails : 0..MaxFails, then : {"ok", "absent", "transient"}]

StubOutcome(st, n) == IF n <= st.fails THEN "transient" ELSE st.then

VARIABLES
    prog, pc, runNo, args, data, outdir, progress,
    livestreams, idx, processed_videos, processed_count, skipped_count, rc,
    transcriber, video_id, attempt, gt_result, stub, calls, waits, outcomes,
    runAdded, written, runCalls, curDone, outdir0, progress0,
    processed, unhandled, audio, prevProcessed, obs, h

vars == <<prog, pc, runNo, args, data, outdir, progress,
          livestreams, idx, processed_videos, processed_count, skipped_count, rc,
          transcriber, video_id, attempt, gt_result, stub, calls, waits, outcomes,
          runAdded, written, runCalls, curDone, outdir0, progress0,
          processed, unhandled, audio, prevProcessed, obs, h>>

envVars == <<prog, runNo, args, data, h>>
fsVars == <<outdir, progress, audio>>
loopVars == <<livestreams, idx, processed_videos, processed_count, skipped_count, rc,
              processed, unhandled>>
gtVars == <<transcriber, attempt, gt_result, stub, waits, outcomes>>
snapVars == <<outdir0, progress0, prevProcessed>>

NoStub == [fails |-> 0, then |-> "ok"]

(* what the run has been seen to do.  Of the run: the HTTP status of the
   input fetch, whether loading the input raised, whether any
   upstream call or file operation failed.  Of the candidate examined last:
   its outcome, the acquisition strategies attempted for it, and (transcribe.py)
   whether every download variant failed, how writing the placeholder went,
   the path download_youtube_audio returned, whether speech-to-text was
   called, whether the audio file was there already and whether any download
   method was run; (youtube_transcription.py) the rate-limit wait that
   followed it (tenths of a second, 0 for none), the number of rate-limit
   waits since the last acquisition began and the identifier of that
   acquisition *)
NoObs ==
    [status |-> 0, raised |-> FALSE, fault |-> FALSE, result |-> "none",
     tried |-> <<>>, allFailed |-> FALSE, placeholder |-> "ok", path |-> None,
     stt |-> FALSE, cached |-> FALSE, invoked |-> FALSE, wait |-> 0,
     sinceTry |-> 0, lastTry |-> None]

Examined(o, result, tried) ==
    [o EXCEPT !.result = result, !.tried = tried, !.allFailed = FALSE,
              !.placeholder = "ok", !.path = None, !.stt = FALSE,
              !.cached = FALSE, !.invoked = FALSE, !.wait = 0]

(* the acquisition strategies a script has: each has exactly one *)
Strategies(p) ==
    IF p = "G" THEN <<"audio">> ELSE <<"captions">>
NoTranscriber == [max_retries |-> 0, retry_delay |-> 0]

(* the local state of a function run on its own; none in a whole run *)
NoH == [fn |-> "none"]

NoArgs == [limit |-> 0, max_retries |-> 0, retry_delay |-> 0, api_delay |-> 0]

(* ------------------- YouTubeTranscription.get_transcript --------------- *)
M_IsContentAbsence_Never(out) == FALSE

IsContentAbsence(out) == out = "absent"

M_MayRetry_OneLess(a, max) == a < max - 2

M_MayRetry_Always(a, max) == TRUE

MayRetry(a, max) == a < max - 1

(* one pass of `for attempt in range(self.max_retries)` *)
GT_Attempt ==
    /\ pc = "gt"
    /\ attempt < transcriber.max_retries
    /\ LET out == StubOutcome(stub, calls + 1) IN
       /\ calls' = calls + 1
       /\ runCalls' = runCalls + 1
       /\ outcomes' = Append(outcomes, out)
       /\ IF out = "ok"
          THEN /\ gt_result' = "data"
               /\ pc' = "gt_ret"
               /\ UNCHANGED <<attempt, waits>>
          ELSE IF IsContentAbsence(out)
          THEN /\ gt_result' = "None"
               /\ pc' = "gt_ret"
               /\ UNCHANGED <<attempt, waits>>
          ELSE IF MayRetry(attempt, transcriber.max_retries)
          THEN /\ \E j \in RetryJitter :
                     waits' = Append(waits, transcriber.retry_delay * j)
               /\ attempt' = attempt + 1
               /\ UNCHANGED <<gt_result, pc>>
          ELSE /\ gt_result' = "None"
               /\ pc' = "gt_ret"
               /\ UNCHANGED <<attempt, waits>>
    /\ UNCHANGED <<envVars, fsVars, loopVars, transcriber, stub, video_id,
                   runAdded, written, curDone, snapVars, obs>>

(* the loop body never ran: the trailing `return None` *)
GT_Exhausted ==
    /\ pc = "gt"
    /\ attempt >= transcriber.max_retries
    /\ gt_result' = "None"
    /\ pc' = "gt_ret"
    /\ UNCHANGED <<envVars, fsVars, loopVars, transcriber, stub, video_id, attempt,
                   calls, waits, outcomes, runAdded, written, runCalls, curDone,
                   snapVars, obs>>

InitGT ==
    /\ prog = "R"
    /\ pc = "gt"
    /\ runNo = 1
    /\ args = NoArgs
    /\ data = [shape |-> "list", key |-> "", items |-> <<>>]
    /\ outdir = <<>>
    /\ progress = [state |-> "missing", ids |-> {}]
    /\ livestreams = <<>>
    /\ idx = 0
    /\ processed_videos = {}
    /\ processed_count = 0
    /\ skipped_count = 0
    /\ rc = 0
    /\ transcriber \in [max_retries : 0..MaxRetries, retry_delay : RetryDelays]
    /\ video_id = IdA
    /\ attempt = 0
    /\ gt_result = "None"
    /\ stub \in Stubs
    /\ calls = 0
    /\ waits = <<>>
    /\ outcomes = <<>>
    /\ runAdded = {}
    /\ written = <<>>
    /\ runCalls = 0
    /\ curDone = FALSE
    /\ outdir0 = <<>>
    /\ progress0 = [state |-> "missing", ids |-> {}]
    /\ processed = FALSE
    /\ unhandled = FALSE
    /\ audio = <<>>
    /\ prevProcessed = FALSE
    /\ obs = NoObs
    /\ h = NoH

NextGT == GT_Attempt \/ GT_Exhausted

SpecGT == InitGT /\ [][NextGT]_vars

(* ========================= the two resolvers ========================== *)
(* strings to resolve: some text, a marker or none, some characters of the
   identifier alphabet (ten, eleven or twelve of them), a tail *)
UrlStrings ==
    {pre \o mark \o chars \o tail :
        pre \in {<<>>, <<"x">>},
        mark \in {<<"W">>, <<"S">>, <<"Y">>, <<>>},
        chars \in {IdA, IdB, Rep("-", IdLen), <<"_">> \o Rep("a", IdLen - 1),
                   Rep("a", IdLen - 1), Rep("b", IdLen + 1)},
        tail \in {<<>>, <<"&", "x">>, <<"?", "x">>, <<"x">>}}

InitRV ==
    /\ prog = "V"
    /\ pc = "resolve"
    /\ runNo = 1
    /\ args = NoArgs
    /\ data \in {[shape |-> "url", key |-> "", items |-> u] : u \in UrlStrings}
    /\ outdir = <<>>
    /\ progress = [state |-> "missing", ids |-> {}]
    /\ livestreams = <<>>
    /\ idx = 0
    /\ processed_videos = {}
    /\ processed_count = 0
    /\ skipped_count = 0
    /\ rc = 0
    /\ transcriber = NoTranscriber
    /\ video_id = None
    /\ attempt = 0
    /\ gt_result = "None"
    /\ stub = NoStub
    /\ calls = 0
    /\ waits = <<>>
    /\ outcomes = <<>>
    /\ runAdded = {}
    /\ written = <<>>
    /\ runCalls = 0
    /\ curDone = FALSE
    /\ outdir0 = <<>>
    /\ progress0 = [state |-> "missing", ids |-> {}]
    /\ processed = FALSE
    /\ unhandled = FALSE
    /\ audio = <<>>
    /\ prevProcessed = FALSE
    /\ obs = NoObs
    /\ h = NoH

(* extract_video_id(url) of the extractor scripts *)
RV_extract_video_id ==
    /\ prog = "V"
    /\ pc = "resolve"
    /\ video_id' = extract_video_id(data.items)
    /\ pc' = "extracted"
    /\ UNCHANGED <<envVars, fsVars, loopVars, gtVars, snapVars, calls, runAdded,
                   written, runCalls, curDone, obs>>

(* YouTubeTranscription().get_video_id_from_url(url) *)
RV_get_video_id_from_url ==
    /\ prog = "V"
    /\ pc = "resolve"
    /\ video_id' = get_video_id_from_url(data.items)
    /\ pc' = "got"
    /\ UNCHANGED <<envVars, fsVars, loopVars, gtVars, snapVars, calls, runAdded,
                   written, runCalls, curDone, obs>>

NextRV == RV_extract_video_id \/ RV_get_video_id_from_url

SpecRV == InitRV /\ [][NextRV]_vars

(* ===================== youtube_transcription.py ======================= *)
(* data.get('livestreams', []) *)
data_get_livestreams(d) ==
    IF d.shape = "dict" /\ d.key = "livestreams" THEN d.items ELSE <<>>

M_InitialProcessed_FileOnly(pf, dir) == load_progress(pf)

(* load_progress, then update() with the directory scan *)
InitialProcessed(pf, dir) == load_progress(pf) \cup get_processed_videos(dir)

M_LimitReached_Late(count, limit) == count > limit

LimitReached(count, limit) == count >= limit

M_NeedsAcquisition_Always(id, done, dir) == TRUE

(* main's `video_id in processed_videos` and process_video's
   `output_file.exists()` both let the candidate through *)
NeedsAcquisition(id, done, dir) ==
    id \notin done /\ DocName(id) \notin DOMAIN dir

M_VideoSuccess_IgnoresWrite(result, header, io) == result # "None" /\ header

(* process_video returns True: a transcript was fetched, the header fields
   of video_info were there to format it, and the file was written *)
VideoSuccess(result, header, io) == result # "None" /\ header /\ io = "ok"

(* format_transcript_as_markdown reads video_info['title'],
   ['channelTitle'] and ['publishedAt'] *)
HasHeader(v) == v.title # Absent /\ v.meta

IsDone(id) == id \in processed_videos \/ DocName(id) \in DOMAIN outdir

(* the command lines of main: the defaults of --retry-delay and --api-delay,
   and one that sets both *)
MainArgs ==
    [limit : 0..MaxLimit, max_retries : MainRetries,
     retry_delay : {DefaultRetryDelay}, api_delay : {DefaultApiDelay}]
    \cup {[limit |-> 1, max_retries |-> 2, retry_delay |-> 10, api_delay |-> 1]}

ResetGT ==
    /\ transcriber' = NoTranscriber
    /\ attempt' = 0
    /\ gt_result' = "None"
    /\ stub' = NoStub
    /\ waits' = <<>>
    /\ outcomes' = <<>>

T_Start ==
    /\ prog = "T"
    /\ pc = "start"
    /\ processed_videos' = InitialProcessed(progress, outdir)
    /\ obs' = [NoObs EXCEPT !.status = 200, !.raised = (data.shape = "list")]
    /\ IF data.shape = "list"
       THEN /\ livestreams' = <<>>
            /\ rc' = 1
            /\ pc' = "exit"
       ELSE /\ livestreams' = data_get_livestreams(data)
            /\ IF livestreams' = <<>>
               THEN rc' = 1 /\ pc' = "exit"
               ELSE rc' = 0 /\ pc' = "loop"
    /\ idx' = 1
    /\ processed_count' = 0
    /\ skipped_count' = 0
    /\ UNCHANGED <<envVars, fsVars, gtVars, video_id, calls, runAdded, written,
                   runCalls, curDone, snapVars, processed, unhandled>>

InLoop ==
    /\ prog = "T"
    /\ pc = "loop"
    /\ idx <= Len(livestreams)
    /\ ~LimitReached(processed_count, args.limit)

(* video.get('url') on a reference that is no mapping: the outer handler *)
T_Abort ==
    /\ InLoop
    /\ livestreams[idx].kind # "dict"
    /\ rc' = 1
    /\ pc' = "exit"
    /\ obs' = Examined(obs, "raised", <<>>)
    /\ UNCHANGED <<envVars, fsVars, gtVars, livestreams, idx, processed_videos,
                   processed_count, skipped_count, video_id, calls, runAdded,
                   written, runCalls, curDone, snapVars, processed, unhandled>>

(* a candidate passed over: no url, an invalid url, already processed
   (`continue`), or its document found by process_video, which returns False
   to main's rate-limit check *)
T_Skip ==
    /\ InLoop
    /\ livestreams[idx].kind = "dict"
    /\ \E url \in {livestreams[idx].url} :
       \E id \in {get_video_id_from_url(url)} :
           IF url = Absent \/ url = <<>> \/ id = Raised
           THEN /\ video_id' = None
                /\ curDone' = FALSE
                /\ obs' = Examined(obs, "noid", <<>>)
                /\ UNCHANGED <<skipped_count, pc>>
           ELSE /\ ~NeedsAcquisition(id, processed_videos, outdir)
                /\ video_id' = id
                /\ curDone' = IsDone(id)
                /\ obs' = Examined(obs, "done", <<>>)
                /\ IF id \in processed_videos
                   THEN skipped_count' = skipped_count + 1 /\ pc' = pc
                   ELSE skipped_count' = skipped_count /\ pc' = "rate"
    /\ idx' = idx + 1
    /\ calls' = 0
    /\ UNCHANGED <<envVars, fsVars, gtVars, livestreams, processed_videos,
                   processed_count, rc, runAdded, written, runCalls, snapVars,
                   processed, unhandled>>

(* process_video up to its call of get_transcript *)
T_Process ==
    /\ InLoop
    /\ livestreams[idx].kind = "dict"
    /\ \E url \in {livestreams[idx].url} :
       \E id \in {get_video_id_from_url(url)} :
           /\ url # Absent /\ url # <<>> /\ id # Raised
           /\ NeedsAcquisition(id, processed_videos, outdir)
           /\ video_id' = id
           /\ curDone' = IsDone(id)
    /\ transcriber' = [max_retries |-> args.max_retries,
                       retry_delay |-> DefaultRetryDelay]
    /\ stub' \in {st \in Stubs : st.fails = 0 \/ st.fails < args.max_retries}
    /\ obs' = [Examined(obs, "acquiring", Strategies(prog)) EXCEPT
                  !.fault = obs.fault \/ stub' # NoStub,
                  !.sinceTry = 0, !.lastTry = video_id']
    /\ attempt' = 0
    /\ calls' = 0
    /\ waits' = <<>>
    /\ outcomes' = <<>>
    /\ gt_result' = "None"
    /\ pc' = "gt"
    /\ UNCHANGED <<envVars, fsVars, loopVars, runAdded, written, runCalls, snapVars>>

(* the rest of process_video, then main's bookkeeping for the candidate *)
T_Complete ==
    /\ prog = "T"
    /\ pc = "gt_ret"
    /\ \E io \in IOOutcomes, pio \in IOOutcomes :
        LET rendered == gt_result # "None" /\ HasHeader(livestreams[idx])
            success == VideoSuccess(gt_result, HasHeader(livestreams[idx]), io)
            md == Doc(livestreams[idx].title, "text", "")
        IN  /\ outdir' = IF rendered
                         THEN save_transcript_to_file(outdir, video_id, md, io)
                         ELSE outdir
            /\ obs' = [obs EXCEPT
                  !.result = IF success THEN "ok"
                             ELSE IF gt_result = "None" THEN "failed"
                             ELSE IF ~rendered THEN "format_failed"
                             ELSE "write_failed",
                  !.fault = obs.fault \/ (rendered /\ io # "ok")
                            \/ (success /\ pio # "ok")]
            /\ written' = IF rendered /\ io = "ok"
                          THEN Append(written, video_id) ELSE written
            /\ IF success
               THEN /\ processed_count' = processed_count + 1
                    /\ processed_videos' = processed_videos \cup {video_id}
                    /\ runAdded' = runAdded \cup {video_id}
                    /\ progress' = save_progress(progress, processed_videos', pio)
               ELSE /\ UNCHANGED <<processed_count, processed_videos, runAdded,
                                   progress>>
    /\ idx' = idx + 1
    /\ pc' = IF processed_count' < args.limit THEN "rate" ELSE "loop"
    /\ ResetGT
    /\ UNCHANGED <<envVars, livestreams, skipped_count, rc, video_id, audio,
                   calls, runCalls, curDone, snapVars, processed, unhandled>>

(* `if processed_count < args.limit:` time.sleep(args.api_delay *
   random.uniform(0.8, 1.2)), after process_video has returned *)
T_RateLimit ==
    /\ prog = "T"
    /\ pc = "rate"
    /\ \E j \in ApiJitter :
          obs' = [obs EXCEPT !.wait = args.api_delay * j, !.sinceTry = @ + 1]
    /\ pc' = "loop"
    /\ UNCHANGED <<envVars, fsVars, gtVars, loopVars, video_id, calls, runAdded,
                   written, runCalls, curDone, snapVars>>

(* the loop ends: limit reached or candidates exhausted *)
T_Finish ==
    /\ prog = "T"
    /\ pc = "loop"
    /\ idx > Len(livestreams) \/ LimitReached(processed_count, args.limit)
    /\ rc' = 0
    /\ pc' = "exit"
    /\ UNCHANGED obs
    /\ UNCHANGED <<envVars, fsVars, gtVars, livestreams, idx, processed_videos,
                   processed_count, skipped_count, video_id, calls, runAdded,
                   written, runCalls, curDone, snapVars, processed, unhandled>>

(* =================== youtube_livestream_extractor.py ================== *)
SampleId == <<"sample_video_id">>

NestedRef == Ref("list", Absent, Absent, Absent, Absent, Absent, FALSE)

HttpStatus == {200, 404}

(* a value of the mapping that carries a video: a mapping with 'url' or
   'videoId', or a string holding a YouTube URL *)
IsVideoItem(v) ==
    \/ v.kind = "dict" /\ (v.url # Absent \/ v.videoId # Absent)
    \/ v.kind = "str" /\ LooksLikeYouTube(v.s)

(* a mapping as the sequence of its entries, in the order of the file: the
   key, whether the value is a list, the list, and the value as it stands
   when it is taken as one reference *)
Entry(key, isList, items, elem) ==
    [key |-> key, isList |-> isList, items |-> items, elem |-> elem]

ToMapping(d) ==
    IF d.shape = "dict"
    THEN <<Entry(d.key, TRUE, d.items, NestedRef)>>
    ELSE [i \in 1..Len(d.items) |-> Entry("key", FALSE, <<>>, d.items[i])]

HasList(m, k) == \E i \in 1..Len(m) : m[i].key = k /\ m[i].isList

(* the first key of `order` that is in the mapping with a list as value,
   "" when there is none: `if k in data:` ... `if isinstance(v, list)` *)
ListKey(m, order) ==
    IF \E i \in 1..Len(order) : HasList(m, order[i])
    THEN order[CHOOSE i \in 1..Len(order) :
                  HasList(m, order[i]) /\ \A j \in 1..(i-1) : ~HasList(m, order[j])]
    ELSE ""

ValueOf(m, k) == m[CHOOSE i \in 1..Len(m) : m[i].key = k].items

(* list(data.values()) *)
Values(m) == [i \in 1..Len(m) |-> m[i].elem]

L_KeyOrder == <<"episodes", "videos", "livestreams">>

(* of a mapping the list under 'episodes', 'videos' or 'livestreams' (in
   this order), else its values that carry a video, else all its values *)
L_from_mapping(m) ==
    IF ListKey(m, L_KeyOrder) # "" THEN ValueOf(m, ListKey(m, L_KeyOrder))
    ELSE IF SelectSeq(Values(m), IsVideoItem) # <<>>
         THEN SelectSeq(Values(m), IsVideoItem)
         ELSE Values(m)

(* a list as it is, a mapping as above *)
L_get_livestreams_from_repo(status, d) ==
    IF status # 200 THEN <<>>
    ELSE IF d.shape = "list" THEN d.items
    ELSE L_from_mapping(ToMapping(d))

(* the copy of the script under .github/workflows *)
W_KeyOrder == <<"episodes", "videos", "livestreams">>

W_from_mapping(m) ==
    IF ListKey(m, W_KeyOrder) # "" THEN ValueOf(m, ListKey(m, W_KeyOrder))
    ELSE IF SelectSeq(Values(m), IsVideoItem) # <<>>
         THEN SelectSeq(Values(m), IsVideoItem)
         ELSE Values(m)

M_check_transcript_exists_Never(dir, id) == FALSE

check_transcript_exists(dir, id) == DocName(id) \in DOMAIN dir

L_save_transcript_to_file(dir, id, transcript, video_title, io) ==
    CASE io = "ok" -> PutFile(dir, DocName(id), Doc(video_title, transcript, ""))
      [] io = "open_fail" -> dir
      [] OTHER -> PutFile(dir, DocName(id), PartialDoc)

(* main's choice of the identifier: videoId, else url, else id, else any
   other string field holding a YouTube URL; a bare string as a URL *)
L_resolve(stream) ==
    IF stream.kind = "dict"
    THEN IF stream.videoId # Absent THEN stream.videoId
         ELSE IF stream.url # Absent THEN extract_video_id(stream.url)
         ELSE IF stream.id # Absent THEN stream.id
         ELSE IF stream.title # Absent /\ LooksLikeYouTube(stream.title)
              THEN extract_video_id(stream.title)
         ELSE None
    ELSE IF stream.kind = "str" /\ LooksLikeYouTube(stream.s)
         THEN extract_video_id(stream.s)
    ELSE None

NoId(id) == id = None \/ id = <<>> \/ id = Absent

SampleTitle == <<"sample title">>

(* get_video_title: the title the oEmbed endpoint answers, or "Video <id>" *)
UpstreamTitle == <<"oembed title">>

FallbackTitle(id) == <<"Video ">> \o id

(* create_sample_transcript: writes sample_video_id.md, unguarded *)
CreateSample(io) ==
    /\ outdir' = L_save_transcript_to_file(outdir, SampleId, "sample", SampleTitle, io)
    /\ written' = IF io = "ok" THEN Append(written, SampleId) ELSE written
    /\ unhandled' = (io # "ok")

L_Start ==
    /\ prog = "L"
    /\ pc = "start"
    /\ \E status \in HttpStatus :
          /\ livestreams' = L_get_livestreams_from_repo(status, data)
          /\ IF livestreams' = <<>>
             THEN /\ \E io \in IOOutcomes :
                       /\ CreateSample(io)
                       /\ obs' = [NoObs EXCEPT !.status = status,
                                     !.fault = (status # 200 \/ io # "ok")]
                  /\ pc' = "exit"
             ELSE /\ pc' = "loop"
                  /\ obs' = [NoObs EXCEPT !.status = status]
                  /\ UNCHANGED <<outdir, written, unhandled>>
    /\ idx' = 1
    /\ processed' = FALSE
    /\ UNCHANGED <<envVars, progress, audio, gtVars, processed_videos,
                   processed_count, skipped_count, rc, video_id, calls, runAdded,
                   runCalls, curDone, snapVars>>

L_Skip ==
    /\ prog = "L"
    /\ pc = "loop"
    /\ idx <= Len(livestreams)
    /\ \E id \in {L_resolve(livestreams[idx])} :
           IF NoId(id)
           THEN /\ video_id' = None
                /\ curDone' = FALSE
                /\ obs' = Examined(obs, "noid", <<>>)
           ELSE /\ check_transcript_exists(outdir, id)
                /\ video_id' = id
                /\ curDone' = IsDone(id)
                /\ obs' = Examined(obs, "done", <<>>)
    /\ idx' = idx + 1
    /\ calls' = 0
    /\ UNCHANGED <<envVars, fsVars, gtVars, livestreams, processed_videos,
                   processed_count, skipped_count, rc, processed, unhandled, pc,
                   runAdded, written, runCalls, snapVars>>

(* get_video_transcript, get_video_title, save_transcript_to_file *)
L_Process ==
    /\ prog = "L"
    /\ pc = "loop"
    /\ idx <= Len(livestreams)
    /\ \E id \in {L_resolve(livestreams[idx])} :
           /\ ~NoId(id)
           /\ ~check_transcript_exists(outdir, id)
           /\ video_id' = id
           /\ curDone' = IsDone(id)
           /\ \E transcript \in {"text", ""} :
                IF transcript = ""
                THEN /\ calls' = 1
                     /\ idx' = idx + 1
                     /\ obs' = [Examined(obs, "failed", Strategies(prog)) EXCEPT
                                   !.fault = TRUE]
                     /\ UNCHANGED <<outdir, written, processed, unhandled, pc>>
                ELSE /\ calls' = 2
                     /\ \E io \in IOOutcomes,
                           video_title \in {UpstreamTitle, FallbackTitle(id)} :
                          /\ outdir' = L_save_transcript_to_file(
                                           outdir, id, transcript, video_title, io)
                          /\ written' = IF io = "ok" THEN Append(written, id)
                                        ELSE written
                          /\ processed' = (io = "ok")
                          /\ unhandled' = (io # "ok")
                          /\ pc' = IF io = "ok" THEN "after" ELSE "exit"
                          /\ obs' = [Examined(obs,
                                        IF io = "ok" THEN "ok" ELSE "write_failed",
                                        Strategies(prog)) EXCEPT
                                        !.fault = obs.fault \/ io # "ok"
                                            \/ video_title # UpstreamTitle]
                     /\ UNCHANGED idx
    /\ runCalls' = runCalls + calls'
    /\ UNCHANGED <<envVars, progress, audio, gtVars, livestreams, processed_videos,
                   processed_count, skipped_count, rc, runAdded, snapVars>>

(* after the loop: the sample file when nothing was processed *)
L_Finish ==
    /\ prog = "L"
    /\ pc = "after" \/ (pc = "loop" /\ idx > Len(livestreams))
    /\ IF ~processed
       THEN \E io \in IOOutcomes :
               /\ CreateSample(io)
               /\ obs' = [obs EXCEPT !.fault = obs.fault \/ io # "ok"]
       ELSE UNCHANGED <<outdir, written, unhandled, obs>>
    /\ pc' = "exit"
    /\ UNCHANGED <<envVars, progress, audio, gtVars, livestreams, idx,
                   processed_videos, processed_count, skipped_count, rc, processed,
                   video_id, calls, runAdded, runCalls, curDone, snapVars>>

(* ============================ transcribe.py =========================== *)
JsonName(id) == id \o <<"_full.json">>

AudioName(id) == id \o <<".mp3">>

(* a list as it is; of a mapping the list under 'livestreams', 'episodes'
   or 'videos', else the mapping itself, which iterates as its keys *)
KeyRef(k) == Ref("str", <<k>>, Absent, Absent, Absent, Absent, FALSE)

G_KeyOrder == <<"livestreams", "episodes", "videos">>

G_from_mapping(m) ==
    IF ListKey(m, G_KeyOrder) # "" THEN ValueOf(m, ListKey(m, G_KeyOrder))
    ELSE [i \in 1..Len(m) |-> KeyRef(m[i].key)]

G_get_livestreams_from_repo(status, d) ==
    IF status # 200 THEN <<>>
    ELSE IF d.shape = "list" THEN d.items
    ELSE G_from_mapping(ToMapping(d))

(* main's choice of the identifier: id, else url, else any other string
   field holding a YouTube URL; a bare string as a URL *)
G_resolve(stream) ==
    IF stream.kind = "dict"
    THEN IF stream.id # Absent THEN stream.id
         ELSE IF stream.url # Absent THEN extract_video_id(stream.url)
         ELSE IF stream.title # Absent /\ LooksLikeYouTube(stream.title)
              THEN extract_video_id(stream.title)
         ELSE None
    ELSE IF stream.kind = "str" /\ LooksLikeYouTube(stream.s)
         THEN extract_video_id(stream.s)
    ELSE None

GSaveOutcomes == {"ok", "json_fail", "open_fail", "write_fail"}

(* <id>_full.json first, then <id>.md; any exception returns False.  The
   header names the video, the time and the transcription service only *)
G_save_transcript_to_file(dir, id, transcription, video_title, io) ==
    LET json == Doc(<<>>, transcription.text, transcription.src)
        md == Doc(video_title, transcription.text, transcription.src)
    IN  CASE io = "json_fail" -> PutFile(dir, JsonName(id), PartialDoc)
          [] io = "open_fail" -> PutFile(dir, JsonName(id), json)
          [] io = "write_fail" ->
                PutFile(PutFile(dir, JsonName(id), json), DocName(id), PartialDoc)
          [] OTHER -> PutFile(PutFile(dir, JsonName(id), json), DocName(id), md)

(* the download methods of download_youtube_audio *)
NumVariants == 5

VariantOutcomes == {"ok", "nonzero", "exception"}

(* how the methods would go, one after the other: the first k-1 fail and
   the k-th succeeds, or all of them fail *)
VariantRuns ==
    {[i \in 1..NumVariants |-> IF i < k THEN f ELSE "ok"] :
        k \in {1, 2, NumVariants}, f \in {"nonzero", "exception"}}
    \cup {[i \in 1..NumVariants |-> f] : f \in {"nonzero", "exception"}}
    \cup {[i \in 1..NumVariants |-> IF i % 2 = 1 THEN "nonzero" ELSE "exception"]}

FirstOk(vr) ==
    IF \E i \in DOMAIN vr : vr[i] = "ok"
    THEN CHOOSE i \in DOMAIN vr : vr[i] = "ok" /\ \A j \in 1..(i-1) : vr[j] # "ok"
    ELSE 0

M_download_youtube_audio_NoPlaceholder(dir, id, vr, pio) ==
    IF AudioName(id) \in DOMAIN dir
    THEN [path |-> AudioName(id), audio |-> dir, runs |-> 0]
    ELSE IF FirstOk(vr) # 0
    THEN [path |-> AudioName(id), audio |-> PutFile(dir, AudioName(id), "real"),
          runs |-> FirstOk(vr)]
    ELSE [path |-> None, audio |-> dir, runs |-> NumVariants]

M_download_youtube_audio_NoCache(dir, id, vr, pio) ==
    IF FirstOk(vr) # 0
    THEN [path |-> AudioName(id), audio |-> PutFile(dir, AudioName(id), "real"),
          runs |-> FirstOk(vr)]
    ELSE CASE pio = "ok" ->
                [path |-> AudioName(id),
                 audio |-> PutFile(dir, AudioName(id), "placeholder"),
                 runs |-> NumVariants]
           [] pio = "open_fail" ->
                [path |-> None, audio |-> dir, runs |-> NumVariants]
           [] OTHER ->
                [path |-> None, audio |-> PutFile(dir, AudioName(id), "empty"),
                 runs |-> NumVariants]

(* download_youtube_audio: an existing file is returned as it is; else the
   methods run in order until one exits with 0; when all have failed the
   placeholder is written (open, then write) and its path returned, None
   when that raised.  `runs` is the number of methods that were run *)
download_youtube_audio(dir, id, vr, pio) ==
    IF AudioName(id) \in DOMAIN dir
    THEN [path |-> AudioName(id), audio |-> dir, runs |-> 0]
    ELSE IF FirstOk(vr) # 0
    THEN [path |-> AudioName(id), audio |-> PutFile(dir, AudioName(id), "real"),
          runs |-> FirstOk(vr)]
    ELSE CASE pio = "ok" ->
                [path |-> AudioName(id),
                 audio |-> PutFile(dir, AudioName(id), "placeholder"),
                 runs |-> NumVariants]
           [] pio = "open_fail" ->
                [path |-> None, audio |-> dir, runs |-> NumVariants]
           [] OTHER ->
                [path |-> None, audio |-> PutFile(dir, AudioName(id), "empty"),
                 runs |-> NumVariants]

G_Start ==
    /\ prog = "G"
    /\ pc = "start"
    /\ \E status \in HttpStatus :
          /\ livestreams' = G_get_livestreams_from_repo(status, data)
          /\ obs' = [NoObs EXCEPT !.status = status, !.fault = (status # 200)]
    /\ IF livestreams' = <<>>
       THEN rc' = 1 /\ pc' = "exit"
       ELSE rc' = 0 /\ pc' = "loop"
    /\ idx' = 1
    /\ processed' = FALSE
    /\ UNCHANGED <<envVars, fsVars, gtVars, processed_videos, processed_count,
                   skipped_count, unhandled, video_id, calls, runAdded, written,
                   runCalls, curDone, snapVars>>

G_Skip ==
    /\ prog = "G"
    /\ pc = "loop"
    /\ idx <= Len(livestreams)
    /\ \E id \in {G_resolve(livestreams[idx])} :
           IF NoId(id)
           THEN /\ video_id' = None
                /\ curDone' = FALSE
                /\ obs' = Examined(obs, "noid", <<>>)
           ELSE /\ check_transcript_exists(outdir, id)
                /\ video_id' = id
                /\ curDone' = IsDone(id)
                /\ obs' = Examined(obs, "done", <<>>)
    /\ idx' = idx + 1
    /\ calls' = 0
    /\ UNCHANGED <<envVars, fsVars, gtVars, livestreams, processed_videos,
                   processed_count, skipped_count, rc, processed, unhandled, pc,
                   runAdded, written, runCalls, snapVars>>

(* title, download_youtube_audio, transcribe_audio_with_groq, save *)
G_Process ==
    /\ prog = "G"
    /\ pc = "loop"
    /\ idx <= Len(livestreams)
    /\ \E stream \in {livestreams[idx]} :
       \E id \in {G_resolve(stream)} :
       LET titleCalls == IF stream.kind = "dict" /\ stream.title # Absent
                         THEN 0 ELSE 1
           cached == AudioName(id) \in DOMAIN audio
           titles == IF titleCalls = 0 THEN {stream.title}
                     ELSE {UpstreamTitle, FallbackTitle(id)}
       IN  /\ ~NoId(id)
           /\ ~check_transcript_exists(outdir, id)
           /\ video_id' = id
           /\ curDone' = IsDone(id)
           /\ \E vr \in (IF cached THEN {[i \in 1..NumVariants |-> "ok"]}
                          ELSE VariantRuns) :
              \E pio \in (IF ~cached /\ FirstOk(vr) = 0 THEN IOOutcomes
                           ELSE {"ok"}) :
              \E dl \in {download_youtube_audio(audio, id, vr, pio)} :
                LET gotAudio == dl.path # None
                IN
                /\ audio' = dl.audio
                /\ \E stt \in (IF gotAudio THEN {"ok", "None"} ELSE {"None"}) :
                   \E io \in (IF stt = "ok" THEN GSaveOutcomes ELSE {"ok"}),
                      video_title \in titles :
                     LET saved == gotAudio /\ stt = "ok"
                         transcription ==
                             [text |-> "text", src |-> dl.audio[AudioName(id)]]
                     IN
                     /\ calls' = titleCalls + (IF dl.runs > 0 THEN 1 ELSE 0)
                                   + (IF gotAudio THEN 1 ELSE 0)
                     /\ outdir' = IF saved
                                  THEN G_save_transcript_to_file(
                                          outdir, id, transcription, video_title, io)
                                  ELSE outdir
                     /\ written' = IF saved /\ io = "ok"
                                   THEN Append(written, id) ELSE written
                     /\ processed' = (saved /\ io = "ok")
                     /\ IF saved /\ io = "ok"
                        THEN pc' = "after" /\ UNCHANGED idx
                        ELSE pc' = pc /\ idx' = idx + 1
                     /\ obs' = [obs EXCEPT
                           !.result = IF ~saved THEN "failed"
                                      ELSE IF io = "ok" THEN "ok"
                                      ELSE "write_failed",
                           !.tried = Strategies(prog),
                           !.allFailed = (~cached /\ FirstOk(vr) = 0),
                           !.placeholder = pio,
                           !.path = dl.path,
                           !.stt = gotAudio,
                           !.cached = cached,
                           !.invoked = (dl.runs > 0),
                           !.fault = obs.fault \/ ~saved \/ io # "ok"
                                     \/ (~cached /\ FirstOk(vr) # 1)
                                     \/ video_title = FallbackTitle(id)]
    /\ runCalls' = runCalls + calls'
    /\ UNCHANGED <<envVars, progress, gtVars, livestreams, processed_videos,
                   processed_count, skipped_count, rc, unhandled, runAdded,
                   snapVars>>

G_Finish ==
    /\ prog = "G"
    /\ pc = "after" \/ (pc = "loop" /\ idx > Len(livestreams))
    /\ pc' = "exit"
    /\ UNCHANGED <<envVars, fsVars, gtVars, loopVars, video_id, calls, runAdded,
                   written, runCalls, curDone, snapVars, obs>>

(* ------------------------- runs of a script --------------------------- *)
(* the same script is started again on the same input and directories *)
NextRun ==
    /\ pc = "exit"
    /\ runNo < MaxRuns
    /\ runNo' = runNo + 1
    /\ pc' = "start"
    /\ livestreams' = <<>>
    /\ idx' = 0
    /\ processed_videos' = {}
    /\ processed_count' = 0
    /\ skipped_count' = 0
    /\ rc' = 0
    /\ ResetGT
    /\ video_id' = None
    /\ calls' = 0
    /\ runAdded' = {}
    /\ written' = <<>>
    /\ runCalls' = 0
    /\ curDone' = FALSE
    /\ outdir0' = outdir
    /\ progress0' = progress
    /\ processed' = FALSE
    /\ unhandled' = FALSE
    /\ prevProcessed' = (~unhandled /\ (processed \/ processed_count > 0))
    /\ obs' = NoObs
    /\ UNCHANGED <<prog, args, data, h, fsVars>>

Init ==
    /\ prog \in {"T", "L", "G"}
    /\ pc = "start"
    /\ runNo = 1
    /\ args \in IF prog = "T" THEN MainArgs
                ELSE {[NoArgs EXCEPT !.limit = 1]}
    /\ data \in DataShapes
    /\ outdir \in InitDirs
    /\ progress \in IF prog = "T" THEN InitProgress
                    ELSE {[state |-> "missing", ids |-> {}]}
    /\ livestreams = <<>>
    /\ idx = 0
    /\ processed_videos = {}
    /\ processed_count = 0
    /\ skipped_count = 0
    /\ rc = 0
    /\ transcriber = NoTranscriber
    /\ video_id = None
    /\ attempt = 0
    /\ gt_result = "None"
    /\ stub = NoStub
    /\ calls = 0
    /\ waits = <<>>
    /\ outcomes = <<>>
    /\ runAdded = {}
    /\ written = <<>>
    /\ runCalls = 0
    /\ curDone = FALSE
    /\ outdir0 = outdir
    /\ progress0 = progress
    /\ processed = FALSE
    /\ unhandled = FALSE
    /\ audio = <<>>
    /\ prevProcessed = FALSE
    /\ obs = NoObs
    /\ h = NoH

Next ==
    \/ T_Start \/ T_Abort \/ T_Skip \/ T_Process \/ T_Complete \/ T_RateLimit
    \/ T_Finish
    \/ GT_Attempt \/ GT_Exhausted
    \/ L_Start \/ L_Skip \/ L_Process \/ L_Finish
    \/ G_Start \/ G_Skip \/ G_Process \/ G_Finish
    \/ NextRun

Spec == Init /\ [][Next]_vars

(* ==================== functions run on their own ====================== *)
(* everything a whole run uses is at rest *)
AtRest(p, start) ==
    /\ prog = p
    /\ pc = start
    /\ runNo = 1
    /\ args = NoArgs
    /\ outdir = <<>>
    /\ progress = [state |-> "missing", ids |-> {}]
    /\ idx = 0
    /\ processed_videos = {}
    /\ processed_count = 0
    /\ skipped_count = 0
    /\ rc = 0
    /\ transcriber = NoTranscriber
    /\ attempt = 0
    /\ gt_result = "None"
    /\ stub = NoStub
    /\ calls = 0
    /\ waits = <<>>
    /\ outcomes = <<>>
    /\ runAdded = {}
    /\ written = <<>>
    /\ runCalls = 0
    /\ curDone = FALSE
    /\ outdir0 = <<>>
    /\ progress0 = [state |-> "missing", ids |-> {}]
    /\ processed = FALSE
    /\ unhandled = FALSE
    /\ prevProcessed = FALSE
    /\ obs = NoObs

restVars == <<prog, runNo, args, data, outdir, progress, idx, processed_videos,
              processed_count, skipped_count, rc, processed, unhandled, gtVars,
              snapVars, calls, runAdded, written, runCalls, curDone, obs>>

(* ------------------ download_youtube_audio, step by step -------------- *)
(* the `methods` list, by what sets each command apart *)
methods == <<"standard", "worstaudio", "useragent", "bestaudio", "geobypass">>

M_MethodSucceeded_AnyExit(out) == out # "exception"

(* `if result.returncode == 0:`; an exception of subprocess.run is caught *)
MethodSucceeded(out) == out = "ok"

(* h.plan: how each method would go; h.invoked: the methods run so far;
   h.existing: whether the file was found at the start; h.ret: the value
   returned *)
InitDL ==
    /\ AtRest("D", "dl")
    /\ data = [shape |-> "id", key |-> "", items |-> IdB]
    /\ livestreams = <<>>
    /\ video_id = IdB
    /\ audio \in {<<>>, PutFile(<<>>, AudioName(IdB), "real"),
                  PutFile(<<>>, AudioName(IdB), "placeholder")}
    /\ h \in [fn : {"download_youtube_audio"},
              plan : [1..NumVariants -> VariantOutcomes],
              invoked : {<<>>}, existing : {FALSE}, ret : {Absent}]

(* `if os.path.exists(output_file): return output_file` *)
DL_Enter ==
    /\ prog = "D"
    /\ pc = "dl"
    /\ IF AudioName(video_id) \in DOMAIN audio
       THEN /\ h' = [h EXCEPT !.existing = TRUE, !.ret = AudioName(video_id)]
            /\ pc' = "dl_ret"
       ELSE /\ h' = h
            /\ pc' = "dl_loop"
    /\ UNCHANGED <<restVars, audio, livestreams, video_id>>

(* one pass of `for method in methods:` *)
DL_Method ==
    /\ prog = "D"
    /\ pc = "dl_loop"
    /\ Len(h.invoked) < Len(methods)
    /\ LET i == Len(h.invoked) + 1 IN
       IF MethodSucceeded(h.plan[i])
       THEN /\ h' = [h EXCEPT !.invoked = Append(@, methods[i]),
                              !.ret = AudioName(video_id)]
            /\ audio' = PutFile(audio, AudioName(video_id), "real")
            /\ pc' = "dl_ret"
       ELSE /\ h' = [h EXCEPT !.invoked = Append(@, methods[i])]
            /\ UNCHANGED <<audio, pc>>
    /\ UNCHANGED <<restVars, livestreams, video_id>>

(* all methods have failed: the dummy file *)
DL_Placeholder ==
    /\ prog = "D"
    /\ pc = "dl_loop"
    /\ Len(h.invoked) = Len(methods)
    /\ \E pio \in IOOutcomes :
          /\ audio' = CASE pio = "ok" ->
                            PutFile(audio, AudioName(video_id), "placeholder")
                        [] pio = "open_fail" -> audio
                        [] OTHER -> PutFile(audio, AudioName(video_id), "empty")
          /\ h' = [h EXCEPT !.ret = IF pio = "ok" THEN AudioName(video_id)
                                     ELSE None]
    /\ pc' = "dl_ret"
    /\ UNCHANGED <<restVars, livestreams, video_id>>

NextDL == DL_Enter \/ DL_Method \/ DL_Placeholder

SpecDL == InitDL /\ [][NextDL]_vars

(* ---------------- format_transcript_as_markdown: the body ------------- *)
MaxSegs == 3

(* start times of segments, in seconds *)
StartTimes == {0, 299, 300, 600}

(* time_in_minutes = item['start'] / 60; int(time_in_minutes / 5) *)
TimeGroup(start) == start \div 300

(* h.starts: the start times of transcript_data['transcript'], the text of
   segment i being i; h.i: the next item; h.md: the paragraphs appended to
   md_content, each the texts joined *)
InitFMT ==
    /\ AtRest("F", "fmt")
    /\ data = [shape |-> "transcript", key |-> "", items |-> <<>>]
    /\ livestreams = <<>>
    /\ video_id = IdB
    /\ audio = <<>>
    /\ h \in {[fn |-> "format_transcript_as_markdown", starts |-> st, i |-> 1,
               current_time_group |-> 0, current_paragraph |-> <<>>,
               md |-> <<>>] :
                 st \in {t \in SeqsUpTo(StartTimes, MaxSegs) :
                            \A k \in 1..(Len(t) - 1) : t[k] <= t[k + 1]}}

(* one pass of `for item in transcript_data['transcript']:` *)
FMT_Item ==
    /\ prog = "F"
    /\ pc = "fmt"
    /\ h.i <= Len(h.starts)
    /\ LET time_group == TimeGroup(h.starts[h.i]) IN
       IF time_group > h.current_time_group /\ h.current_paragraph # <<>>
       THEN h' = [h EXCEPT !.md = Append(@, h.current_paragraph),
                           !.current_paragraph = <<h.i>>,
                           !.current_time_group = time_group,
                           !.i = @ + 1]
       ELSE h' = [h EXCEPT !.current_paragraph = Append(@, h.i),
                           !.i = @ + 1]
    /\ UNCHANGED <<restVars, pc, audio, livestreams, video_id>>

(* the last paragraph *)
FMT_Last ==
    /\ prog = "F"
    /\ pc = "fmt"
    /\ h.i > Len(h.starts)
    /\ h' = IF h.current_paragraph # <<>>
            THEN [h EXCEPT !.md = Append(@, h.current_paragraph)]
            ELSE h
    /\ pc' = "fmt_ret"
    /\ UNCHANGED <<restVars, audio, livestreams, video_id>>

NextFMT == FMT_Item \/ FMT_Last

SpecFMT == InitFMT /\ [][NextFMT]_vars

(* ------------ YouTubeLivestreamExtractor.get_livestreams -------------- *)
MaxVideos == 3
MaxResults == 2

(* a video of the uploads playlist: when it was published, and whether it is
   a livestream ("live"), is none ("plain"), or is one whose record lacks a
   field the code reads ("broken": the KeyError goes to the handler) *)
VideoPool ==
    {[publishedAt |-> t, kind |-> "live"] : t \in 1..2}
    \cup {[publishedAt |-> 1, kind |-> k] : k \in {"plain", "broken"}}

RECURSIVE InsertDesc(_, _)
InsertDesc(s, x) ==
    IF s = <<>> THEN <<x>>
    ELSE IF s[1].publishedAt >= x.publishedAt
    THEN <<s[1]>> \o InsertDesc(Tail(s), x)
    ELSE <<x>> \o s

(* livestreams.sort(key=publishedAt, reverse=True): stable *)
RECURSIVE SortDesc(_)
SortDesc(s) ==
    IF s = <<>> THEN <<>>
    ELSE InsertDesc(SortDesc(SubSeq(s, 1, Len(s) - 1)), s[Len(s)])

(* `for video in videos_response.get('items', [])`: the livestreams of the
   videos i..to appended to acc, up to the first broken record *)
RECURSIVE ScanPage(_, _, _, _)
ScanPage(vs, i, to, acc) ==
    IF i > to THEN [items |-> acc, raised |-> FALSE]
    ELSE IF vs[i].kind = "broken" THEN [items |-> acc, raised |-> TRUE]
    ELSE ScanPage(vs, i + 1, to,
                  IF vs[i].kind = "live"
                  THEN Append(acc, [id |-> i, publishedAt |-> vs[i].publishedAt])
                  ELSE acc)

(* h.channel: how channels().list goes; h.videos: the uploads playlist;
   h.next: the first video no page has brought yet; h.livestreams: the local
   list; h.ret: the list returned; h.path: by `return` or by the handler *)
InitLS ==
    /\ AtRest("Y", "ls")
    /\ data = [shape |-> "channel", key |-> "", items |-> <<>>]
    /\ livestreams = <<>>
    /\ video_id = None
    /\ audio = <<>>
    /\ h \in [fn : {"get_livestreams"}, max_results : 1..MaxResults,
              channel : {"ok", "none", "raise"},
              videos : SeqsUpTo(VideoPool, MaxVideos),
              next : {1}, livestreams : {<<>>}, ret : {<<>>}, path : {""}]

(* channels().list and the uploads playlist id *)
LS_Channels ==
    /\ prog = "Y"
    /\ pc = "ls"
    /\ CASE h.channel = "ok" -> pc' = "ls_page" /\ h' = h
         [] h.channel = "none" ->
               pc' = "ls_ret" /\ h' = [h EXCEPT !.ret = h.livestreams,
                                                !.path = "empty"]
         [] OTHER ->
               pc' = "ls_ret" /\ h' = [h EXCEPT !.ret = h.livestreams,
                                                !.path = "except"]
    /\ UNCHANGED <<restVars, audio, livestreams, video_id>>

(* one pass of `while True and len(livestreams) < max_results:`: a page of
   the playlist, the details of its videos, the livestreams among them *)
LS_Page ==
    /\ prog = "Y"
    /\ pc = "ls_page"
    /\ Len(h.livestreams) < h.max_results
    /\ \E fetch \in {"ok", "raise"},
          n \in (IF h.next > Len(h.videos) THEN {0}
                 ELSE 1..(Len(h.videos) - h.next + 1)) :
         \E page \in {ScanPage(h.videos, h.next, h.next + n - 1, h.livestreams)} :
          IF fetch = "raise"
          THEN /\ h' = [h EXCEPT !.ret = h.livestreams, !.path = "except"]
               /\ pc' = "ls_ret"
          ELSE IF page.raised
          THEN /\ h' = [h EXCEPT !.livestreams = page.items,
                                 !.ret = page.items, !.path = "except"]
               /\ pc' = "ls_ret"
          ELSE /\ h' = [h EXCEPT !.livestreams = page.items, !.next = @ + n]
               /\ pc' = IF h.next + n > Len(h.videos) THEN "ls_sort"
                        ELSE "ls_page"
    /\ UNCHANGED <<restVars, audio, livestreams, video_id>>

(* the loop has ended: sort, then livestreams[:max_results] *)
LS_Return ==
    /\ prog = "Y"
    /\ \/ pc = "ls_sort"
       \/ pc = "ls_page" /\ Len(h.livestreams) >= h.max_results
    /\ \E sorted \in {SortDesc(h.livestreams)} :
          h' = [h EXCEPT
                  !.livestreams = sorted,
                  !.ret = SubSeq(sorted, 1,
                                 IF Len(sorted) < h.max_results
                                 THEN Len(sorted) ELSE h.max_results),
                  !.path = "return"]
    /\ pc' = "ls_ret"
    /\ UNCHANGED <<restVars, audio, livestreams, video_id>>

NextLS == LS_Channels \/ LS_Page \/ LS_Return

SpecLS == InitLS /\ [][NextLS]_vars

(* ------------- main's choice of the identifier of a mapping ----------- *)
(* mappings with some of the fields url, id, videoId and title: each absent,
   holding what it should, or holding something else *)
StructRefs ==
    {Ref("dict", Absent, url, id, videoId, title, FALSE) :
        url \in {Absent, <<"W">> \o IdB, <<"x">>},
        id \in {Absent, IdA, <<"x">>},
        videoId \in {Absent, IdA, <<"x">>},
        title \in {Absent, TitleT, <<"S">> \o IdB}}

InitRS ==
    /\ AtRest("S", "ref")
    /\ data \in {[shape |-> "ref", key |-> "", items |-> r] : r \in StructRefs}
    /\ livestreams = <<>>
    /\ video_id = None
    /\ audio = <<>>
    /\ h = NoH

(* youtube_livestream_extractor.py *)
RS_L_resolve ==
    /\ prog = "S"
    /\ pc = "ref"
    /\ video_id' = L_resolve(data.items)
    /\ pc' = "resolved_L"
    /\ UNCHANGED <<restVars, audio, livestreams, h>>

(* transcribe.py *)
RS_G_resolve ==
    /\ prog = "S"
    /\ pc = "ref"
    /\ video_id' = G_resolve(data.items)
    /\ pc' = "resolved_G"
    /\ UNCHANGED <<restVars, audio, livestreams, h>>

NextRS == RS_L_resolve \/ RS_G_resolve

SpecRS == InitRS /\ [][NextRS]_vars

(* ------------------ get_livestreams_from_repo on mappings ------------- *)
MapKeys == <<"meta", "videos", "episodes", "livestreams">>

(* a reference found in the list under key k *)
ItemOf(k) == Ref("dict", Absent, Absent, Absent, Absent, <<k>>, FALSE)

(* what a key may hold: nothing (the key is not there), a list, a value
   that is no list and carries no video, a mapping with a url *)
ValueKinds == {"absent", "list", "scalar", "video"}

EntryOf(k, kind) ==
    CASE kind = "absent" -> <<>>
      [] kind = "list" -> <<Entry(k, TRUE, <<ItemOf(k)>>, NestedRef)>>
      [] kind = "scalar" -> <<Entry(k, FALSE, <<>>, JunkStrRef)>>
      [] OTHER -> <<Entry(k, FALSE, <<>>, UrlRecordRef)>>

Mappings ==
    {EntryOf(MapKeys[1], c[1]) \o EntryOf(MapKeys[2], c[2])
        \o EntryOf(MapKeys[3], c[3]) \o EntryOf(MapKeys[4], c[4]) :
            c \in [1..4 -> ValueKinds]}

InitNZ ==
    /\ AtRest("N", "norm")
    /\ data \in {[shape |-> "mapping", key |-> "", items |-> m] : m \in Mappings}
    /\ livestreams = <<>>
    /\ video_id = None
    /\ audio = <<>>
    /\ h = NoH

NZ_L ==
    /\ prog = "N"
    /\ pc = "norm"
    /\ livestreams' = L_from_mapping(data.items)
    /\ pc' = "norm_L"
    /\ UNCHANGED <<restVars, audio, video_id, h>>

NZ_W ==
    /\ prog = "N"
    /\ pc = "norm"
    /\ livestreams' = W_from_mapping(data.items)
    /\ pc' = "norm_W"
    /\ UNCHANGED <<restVars, audio, video_id, h>>

NZ_G ==
    /\ prog = "N"
    /\ pc = "norm"
    /\ livestreams' = G_from_mapping(data.items)
    /\ pc' = "norm_G"
    /\ UNCHANGED <<restVars, audio, video_id, h>>

NextNZ == NZ_L \/ NZ_W \/ NZ_G

SpecNZ == InitNZ /\ [][NextNZ]_vars

(* ===================== get_transcript on its own ====================== *)
RECURSIVE SumSeq(_)
SumSeq(s) == IF s = <<>> THEN 0 ELSE s[1] + SumSeq(Tail(s))

Returned == pc = "gt_ret"

AlwaysAbsent == stub.fails = 0 /\ stub.then = "absent"

AlwaysTransient ==
    stub.then = "transient" \/ stub.fails >= transcriber.max_retries

(* C1: for max_retries >= 1, when the upstream call raises a content-absence
   error it is invoked exactly once, no backoff wait occurs and the result
   is failure (None). *)
C1_AbsenceNotRetried ==
    (transcriber.max_retries >= 1 /\ AlwaysAbsent) =>
        /\ calls <= 1
        /\ waits = <<>>
        /\ Returned => (calls = 1 /\ gt_result = "None")

C1_Witness ==
    /\ Returned
    /\ AlwaysAbsent
    /\ transcriber.max_retries >= 2
    /\ calls = 1

(* C2: for 1 <= N <= max_retries, a stub that fails transiently N-1 times and
   then succeeds makes get_transcript return the result after exactly N
   invocations and N-1 waits, each within [0.5, 1.5] x retry_delay, so the
   cumulative wait is at least (N-1) x retry_delay x 0.5 (waits in tenths of
   a second). *)
C2_FailThenSucceed ==
    \A N \in 1..transcriber.max_retries :
        (Returned /\ stub.fails = N - 1 /\ stub.then = "ok") =>
            /\ gt_result = "data"
            /\ calls = N
            /\ Len(waits) = N - 1
            /\ \A i \in 1..Len(waits) :
                  /\ 5 * transcriber.retry_delay <= waits[i]
                  /\ waits[i] <= 15 * transcriber.retry_delay
            /\ SumSeq(waits) >= (N - 1) * transcriber.retry_delay * 5

C2_Witness ==
    /\ Returned
    /\ stub.then = "ok"
    /\ stub.fails = 2
    /\ transcriber.max_retries = 3
    /\ transcriber.retry_delay = 5
    /\ gt_result = "data"
    /\ Len(waits) = 2

(* C3 as stated: if every invocation fails transiently, exactly max_retries
   invocations and exactly max_retries-1 waits are made, the result is None,
   and never more than max_retries invocations are made. *)
C3_Original ==
    /\ calls <= transcriber.max_retries
    /\ (Returned /\ AlwaysTransient) =>
          /\ calls = transcriber.max_retries
          /\ Len(waits) = transcriber.max_retries - 1
          /\ gt_result = "None"

(* C3 amended: the same for max_retries >= 1; with max_retries = 0 the loop
   body never runs, so there is no invocation and no wait. *)
C3_ExhaustedRetries ==
    /\ calls <= transcriber.max_retries
    /\ Len(waits) <= calls
    /\ (Returned /\ AlwaysTransient) =>
          /\ calls = transcriber.max_retries
          /\ gt_result = "None"
          /\ transcriber.max_retries >= 1 =>
                /\ Len(waits) = transcriber.max_retries - 1
                /\ outcomes[Len(outcomes)] = "transient"
                /\ Len(waits) < calls

C3_Witness ==
    /\ Returned
    /\ AlwaysTransient
    /\ transcriber.max_retries = 3
    /\ calls = 3
    /\ Len(waits) = 2

(* ========================= whole runs of a script ===================== *)
HasDoc(dir, id) == DocName(id) \in DOMAIN dir

HasFullDoc(dir, id) == HasDoc(dir, id) /\ dir[DocName(id)].complete

Persisted(pf) == IF pf.state = "ok" THEN pf.ids ELSE {}

(* the identifier a script resolves a reference to, None when it cannot *)
Resolve(p, ref) ==
    IF p = "T"
    THEN IF ref.kind # "dict" \/ ref.url = Absent \/ ref.url = <<>>
            \/ get_video_id_from_url(ref.url) = Raised
         THEN None ELSE get_video_id_from_url(ref.url)
    ELSE IF p = "L" THEN (IF NoId(L_resolve(ref)) THEN None ELSE L_resolve(ref))
    ELSE (IF NoId(G_resolve(ref)) THEN None ELSE G_resolve(ref))

Cap == IF prog = "T" THEN args.limit ELSE 1

(* C4: every identifier the run of youtube_transcription.py has added to the
   processed set, and every identifier it has newly put into the progress
   file, has its completely written document <id>.md in the output
   directory; a failed acquisition or write adds nothing. *)
C4_DoneOnlyAfterWrite ==
    prog = "T" =>
        /\ \A id \in runAdded :
              /\ HasFullDoc(outdir, id)
              /\ id \in processed_videos
        /\ \A id \in Persisted(progress) \ Persisted(progress0) :
              HasDoc(outdir, id)
        /\ processed_count = Cardinality(runAdded)

C4_Witness ==
    /\ prog = "T"
    /\ runAdded = {IdB}
    /\ IdB \in Persisted(progress)
    /\ HasDoc(outdir, IdA)
    /\ ~HasFullDoc(outdir, IdA)
    /\ IdA \notin processed_videos

(* the run has read the unchanged input and every candidate of it was done
   when the run started *)
AllDoneAtStart ==
    /\ data.items # <<>>
    /\ livestreams = data.items
    /\ \A i \in 1..Len(data.items) :
          LET id == Resolve(prog, data.items[i])
          IN  /\ id # None
              /\ \/ HasDoc(outdir0, id)
                 \/ prog = "T" /\ id \in Persisted(progress0)

(* C5 as stated: when the previous run succeeded and every candidate of the
   input is done when a further run starts, that run creates no new file in
   the output directory and makes no acquisition call. *)
C5_Idempotent ==
    (runNo >= 2 /\ prevProcessed /\ AllDoneAtStart) =>
        /\ DOMAIN outdir = DOMAIN outdir0
        /\ runCalls = 0

(* C6: the number of documents written in a run never exceeds the per-run
   limit (--limit in youtube_transcription.py, 1 in the other scripts), and
   once that many are written no further candidate is examined, acquired or
   written in the run. *)
C6_AtMostLimit ==
    /\ [](Len(written) <= Cap)
    /\ [][(pc \in {"loop", "after", "gt", "gt_ret"} /\ Len(written) >= Cap) =>
             /\ idx' = idx
             /\ outdir' = outdir
             /\ runCalls' = runCalls
             /\ written' = written]_vars

C6_Witness ==
    /\ prog = "T"
    /\ args.limit = 1
    /\ pc = "exit"
    /\ Len(written) = 1
    /\ idx = 2
    /\ Len(livestreams) = 2
    /\ Resolve("T", livestreams[2]) = IdB
    /\ ~IsDone(IdB)

(* C7: an identifier completed in the run is skipped, with no acquisition
   call, at every later reference that resolves to it: no acquisition is
   under way for a completed identifier and none is written twice. *)
C7_DoneAtOnce ==
    /\ \A i, j \in 1..Len(written) : written[i] = written[j] => i = j
    /\ pc \in {"gt", "gt_ret"} => video_id \notin runAdded
    /\ (video_id \in runAdded /\ curDone) => calls = 0

C7_Witness ==
    /\ prog = "T"
    /\ pc = "loop"
    /\ idx = 3
    /\ video_id = IdA
    /\ IdA \in runAdded
    /\ curDone
    /\ calls = 0
    /\ written = <<IdA>>
    /\ processed_count < args.limit

(* C8: a candidate whose document exists, or that is in the processed set,
   when it is examined gets no upstream call at all. *)
C8_CheckBeforeCalls ==
    curDone => (calls = 0 /\ pc \notin {"gt", "gt_ret"})

C8_Witness ==
    /\ prog = "G"
    /\ curDone
    /\ video_id = IdB
    /\ runCalls > 0
    /\ pc = "loop"

(* C9: when the loop of youtube_transcription.py starts, the processed set
   is the union of the identifiers of the progress file and of the names of
   the documents in the output directory; it is the directory scan alone
   when the file is missing or unreadable; so every identifier whose
   document exists is in it. *)
C9_InitialSet ==
    (prog = "T" /\ pc = "loop" /\ idx = 1) =>
        LET dirIds == {SubSeq(n, 1, Len(n) - 1) :
                          n \in {m \in DOMAIN outdir : m[Len(m)] = ".md"}}
        IN  /\ processed_videos = Persisted(progress) \cup dirIds
            /\ progress.state # "ok" => processed_videos = dirIds
            /\ \A i \in 1..Len(livestreams) :
                  LET id == Resolve("T", livestreams[i])
                  IN  (id # None /\ HasDoc(outdir, id)) =>
                          id \in processed_videos

C9_Witness ==
    /\ prog = "T"
    /\ pc = "loop"
    /\ idx = 1
    /\ runNo = 2
    /\ progress.state = "corrupt"
    /\ processed_videos = {IdA, IdB}

(* C10 as stated: when a run of youtube_transcription.py has ended, every
   identifier it marked done is in the persisted progress file. *)
C10_Flushed ==
    (prog = "T" /\ pc = "exit") => runAdded \subseteq Persisted(progress)

(* C11 as stated: every file that makes the already-done check true for an
   identifier (a file <id>.md of the output directory) holds the complete
   rendered document, also when writing stopped part-way. *)
C11_AtomicWrite ==
    \A n \in DOMAIN outdir :
        (n[Len(n)] = ".md" /\ n # DocName(SampleId)) => outdir[n].complete

(* the order of the acquisition chain: direct captions, transcript service,
   audio download plus speech-to-text *)
ChainOrder == <<"captions", "service", "audio">>

(* C12 as stated: the strategies attempted for an identifier are a prefix of
   the chain order, and an identifier is given up as failed only after every
   strategy of the chain was attempted. *)
C12_StrategyChain ==
    /\ Len(obs.tried) <= Len(ChainOrder)
    /\ obs.tried = SubSeq(ChainOrder, 1, Len(obs.tried))
    /\ obs.result = "failed" => obs.tried = ChainOrder

(* C13: in transcribe.py, when every download variant has failed the
   placeholder audio is written at the identifier's audio path, that path is
   returned and speech-to-text is attempted; download_youtube_audio returns
   None only when all variants failed and writing the placeholder failed
   too, and then speech-to-text is not attempted. *)
C13_PlaceholderSubstituted ==
    (prog = "G" /\ obs.tried # <<>>) =>
        /\ (obs.allFailed /\ obs.placeholder = "ok") =>
              /\ obs.path = AudioName(video_id)
              /\ AudioName(video_id) \in DOMAIN audio
              /\ audio[AudioName(video_id)] = "placeholder"
              /\ obs.stt
              /\ calls >= 2
        /\ obs.path = None <=> (obs.allFailed /\ obs.placeholder # "ok")
        /\ obs.path = None => (~obs.stt /\ obs.result = "failed")

C13_Witness ==
    /\ prog = "G"
    /\ obs.allFailed
    /\ obs.placeholder = "ok"
    /\ obs.path = AudioName(IdB)
    /\ obs.stt
    /\ obs.result = "ok"
    /\ HasFullDoc(outdir, IdB)

(* C14 as stated: every document whose transcript came from the placeholder
   audio carries the synthetic tag. *)
C14_SyntheticTagged ==
    \A n \in DOMAIN outdir :
        (outdir[n].complete /\ outdir[n].src \in {"placeholder", "empty"}) =>
            outdir[n].synthetic

(* C15 as stated: a candidate whose reference yields no identifier, or whose
   acquisition failed, leaves no document and is not marked done, and the run
   goes on: it ends only when no candidate is left. *)
C15_FailedCandidateSkipped ==
    obs.result \in {"noid", "raised", "failed"} =>
        /\ obs.result # "raised"
        /\ ~unhandled
        /\ pc = "exit" => idx > Len(livestreams)
        /\ obs.result = "failed" =>
              /\ ~HasDoc(outdir, video_id)
              /\ video_id \notin processed_videos
              /\ video_id \notin runAdded

(* C16 as stated: after a failed write of an identifier's document no
   exception is left unhandled, the identifier is not marked done, and the
   run ends only when no candidate is left. *)
C16_WriteFailureContained ==
    obs.result = "write_failed" =>
        /\ ~unhandled
        /\ video_id \notin runAdded
        /\ ~processed
        /\ pc = "exit" => idx > Len(livestreams)

(* C17 as stated: once the input was fetched and decoded, loading it raised
   nothing; a bare list and the list under a recognised container key are the
   sequence the run iterates, and any other mapping gives a sequence no
   longer than the mapping. *)
C17_NormaliserTotal ==
    (prog \in {"T", "L", "G"} /\ pc # "start" /\ obs.status = 200) =>
        /\ ~obs.raised
        /\ data.shape \in {"list", "dict"} => livestreams = data.items
        /\ data.shape = "map" => Len(livestreams) <= Len(data.items)

(* a watch or short URL: a marker followed by eleven characters of the
   identifier alphabet *)
UrlAt(u, i) ==
    /\ u[i] \in {"W", "S"}
    /\ i + IdLen <= Len(u)
    /\ \A k \in 1..IdLen : u[i + k] \in IdAlphabet

HasUrl(u) == \E i \in 1..Len(u) : UrlAt(u, i)

(* C18 as stated: for a string containing a watch or short URL either
   resolver returns the eleven characters after the marker; for any other
   string it returns None, raising nothing. *)
C18_ResolverTotal ==
    (prog = "V" /\ pc # "resolve") =>
        LET u == data.items IN
        /\ HasUrl(u) =>
              \E i \in 1..Len(u) :
                  UrlAt(u, i) /\ video_id = SubSeq(u, i + 1, i + IdLen)
        /\ ~HasUrl(u) => video_id = None

MdNames(dir) == {n \in DOMAIN dir : n[Len(n)] = ".md"}

(* C19 as stated: for the input {"videos": [{"id": I, "title": T}]}, an empty
   output directory and no failure of any upstream call or file operation,
   the run ends with exactly the document of I, holding the title T and the
   returned text, and with I recorded as done. *)
C19_EndToEndSuccess ==
    ( /\ data = [shape |-> "dict", key |-> "videos", items |-> <<RecordRef>>]
      /\ runNo = 1
      /\ pc = "exit"
      /\ outdir0 = <<>>
      /\ progress0.state = "missing"
      /\ ~obs.fault
      /\ prog = "T" => (args.limit >= 1 /\ args.max_retries >= 1) ) =>
        /\ MdNames(outdir) = {DocName(IdB)}
        /\ outdir[DocName(IdB)].complete
        /\ outdir[DocName(IdB)].title = TitleT
        /\ outdir[DocName(IdB)].body = "text"
        /\ prog = "T" => IdB \in Persisted(progress)

(* C20 as stated: for the input [short URL], an empty output directory and
   every acquisition failing, the run ends with no file in the output
   directory, nothing in the progress file, nothing processed and no
   exception left unhandled. *)
C20_EndToEndFailure ==
    ( /\ data = [shape |-> "list", key |-> "", items |-> <<ShortUrlRef>>]
      /\ runNo = 1
      /\ pc = "exit"
      /\ outdir0 = <<>>
      /\ progress0.state = "missing"
      /\ obs.status = 200
      /\ prog \in {"L", "G"} => obs.result = "failed" ) =>
        /\ outdir = <<>>
        /\ Persisted(progress) = {}
        /\ processed_count = 0
        /\ ~processed
        /\ ~unhandled

(* C21 as stated: a transcript document of the output directory is never
   overwritten, truncated or rewritten: no step changes or removes a file
   <name>.md that is there. *)
C21_Immutable ==
    [][\A n \in MdNames(outdir) :
          n \in DOMAIN outdir' /\ outdir'[n] = outdir[n]]_vars

(* C22 as stated: every backoff wait of a run of youtube_transcription.py
   lies between 0.5 x and 1.5 x the --retry-delay of the run (waits in tenths
   of a second). *)
C22_ConfiguredBase ==
    prog = "T" =>
        \A i \in 1..Len(waits) :
            /\ 5 * args.retry_delay <= waits[i]
            /\ waits[i] <= 15 * args.retry_delay

(* C27 as stated: a rate-limit wait of youtube_transcription.py lies between
   0.8 x and 1.2 x --api-delay, follows an acquisition (never a candidate
   skipped as done or without identifier) and only while the limit is not
   reached; an acquisition for another identifier than the one before it
   starts after exactly one rate-limit wait; no rate-limit wait occurs while
   get_transcript retries. *)
C27_RateLimit ==
    /\ [](prog = "T" =>
            /\ obs.wait # 0 =>
                  /\ 8 * args.api_delay <= obs.wait
                  /\ obs.wait <= 12 * args.api_delay
                  /\ obs.result \notin {"done", "noid"}
                  /\ processed_count < args.limit
            /\ pc \in {"gt", "gt_ret"} => (obs.wait = 0 /\ obs.sinceTry = 0))
    /\ [][(prog = "T" /\ pc = "loop" /\ pc' = "gt"
             /\ obs.lastTry \notin {None, video_id'}) =>
                obs.sinceTry = 1]_vars

(* C29: in transcribe.py an audio file that is there when the identifier is
   processed is returned without any download method being run, also when it
   is the placeholder of an earlier run; a placeholder found after the
   processing that this call did not write was there before it; and no audio
   file is ever replaced or removed. *)
C29_CachedAudio ==
    /\ []((prog = "G" /\ obs.tried # <<>>) =>
            /\ obs.cached =>
                  /\ ~obs.invoked
                  /\ ~obs.allFailed
                  /\ obs.path = AudioName(video_id)
                  /\ obs.stt
            /\ ( /\ AudioName(video_id) \in DOMAIN audio
                 /\ audio[AudioName(video_id)] = "placeholder"
                 /\ ~obs.allFailed ) => (obs.cached /\ ~obs.invoked))
    /\ [][\A n \in DOMAIN audio :
             n \in DOMAIN audio' /\ audio'[n] = audio[n]]_vars

C29_Witness ==
    /\ prog = "G"
    /\ runNo = 2
    /\ obs.tried # <<>>
    /\ obs.cached
    /\ ~obs.invoked
    /\ audio[AudioName(IdB)] = "placeholder"
    /\ obs.path = AudioName(IdB)
    /\ obs.result = "ok"
    /\ outdir[DocName(IdB)].src = "placeholder"

(* C30 as stated: every identifier the progress file held when a run of
   youtube_transcription.py started is in it when the run has ended. *)
C30_ProgressGrows ==
    (prog = "T" /\ pc = "exit") =>
        Persisted(progress0) \subseteq Persisted(progress)

(* ===================== functions run on their own ===================== *)
(* C23 as stated: get_livestreams returns at most max_results entries on
   every path, the exception path included, and on the normal path they are
   ordered by publishedAt, newest first. *)
C23_AtMostMaxResults ==
    (prog = "Y" /\ pc = "ls_ret") =>
        /\ Len(h.ret) <= h.max_results
        /\ h.path = "return" =>
              \A i, j \in 1..Len(h.ret) :
                  i < j => h.ret[i].publishedAt >= h.ret[j].publishedAt

(* the order of the download variants: standard, worst-quality audio,
   alternate user agent, alternate format, geo-bypass *)
VariantOrder == <<"standard", "worstaudio", "useragent", "bestaudio", "geobypass">>

(* C24: the variants of download_youtube_audio are run in the order
   standard, worst-quality audio, alternate user agent, alternate format,
   geo-bypass, each only after all before it have failed; the call ends with
   the first variant that exits with 0, and a variant that raised is followed
   by the next one. *)
C24_VariantChain ==
    prog = "D" =>
        LET k == Len(h.invoked) IN
        /\ h.invoked = SubSeq(VariantOrder, 1, k)
        /\ \A j \in 1..(k - 1) : h.plan[j] # "ok"
        /\ h.existing => k = 0
        /\ (pc = "dl_ret" /\ ~h.existing) =>
              /\ k = IF FirstOk(h.plan) = 0 THEN NumVariants ELSE FirstOk(h.plan)
              /\ FirstOk(h.plan) # 0 =>
                    /\ h.ret = AudioName(video_id)
                    /\ audio[AudioName(video_id)] = "real"
              /\ \A j \in 1..(NumVariants - 1) :
                    (j <= k /\ h.plan[j] = "exception") => k > j

C24_Witness ==
    /\ prog = "D"
    /\ pc = "dl_ret"
    /\ h.plan[1] = "exception"
    /\ h.plan[2] = "nonzero"
    /\ h.plan[3] = "ok"
    /\ h.plan[4] = "ok"
    /\ h.invoked = <<"standard", "worstaudio", "useragent">>
    /\ h.ret = AudioName(IdB)

(* eleven characters of the identifier alphabet *)
ValidId(x) ==
    /\ x # Absent
    /\ Len(x) = IdLen
    /\ \A i \in 1..Len(x) : x[i] \in IdAlphabet

(* the resolution the claim describes, for the explicit identifier fields
   `explicit` of a script *)
ClaimedId(ref, explicit) ==
    IF \E i \in 1..Len(explicit) : ValidId(explicit[i])
    THEN explicit[CHOOSE i \in 1..Len(explicit) :
                     ValidId(explicit[i])
                     /\ \A j \in 1..(i-1) : ~ValidId(explicit[j])]
    ELSE IF ref.url # Absent /\ extract_video_id(ref.url) # None
    THEN extract_video_id(ref.url)
    ELSE IF ref.title # Absent /\ extract_video_id(ref.title) # None
    THEN extract_video_id(ref.title)
    ELSE None

(* C25 as stated: a mapping is resolved to its explicit identifier field when
   that is there and valid, otherwise to the identifier of its URL field,
   otherwise to that of any other field holding a URL; so an invalid
   identifier field or a URL field that does not match does not keep a later
   field from being used. *)
C25_ResolutionOrder ==
    prog = "S" =>
        LET ref == data.items
            got == IF NoId(video_id) THEN None ELSE video_id
        IN  /\ pc = "resolved_L" =>
                  got = ClaimedId(ref, <<ref.videoId, ref.id>>)
            /\ pc = "resolved_G" => got = ClaimedId(ref, <<ref.id>>)

(* the container keys in the order the claim gives *)
ClaimedKeyOrder == <<"livestreams", "episodes", "videos">>

CarriesVideo(v) ==
    \/ v.kind = "dict" /\ (v.url # Absent \/ v.videoId # Absent \/ v.id # Absent)
    \/ v.kind = "str" /\ HasUrl(v.s)

(* C26 as stated: of a mapping every normaliser returns the list under the
   first of "livestreams", "episodes", "videos" that holds a list; when none
   does, the values that carry a URL or identifier; when there are none, all
   values. *)
C26_NormaliserOrder ==
    (prog = "N" /\ pc # "norm") =>
        LET m == data.items IN
        livestreams =
            IF ListKey(m, ClaimedKeyOrder) # ""
            THEN ValueOf(m, ListKey(m, ClaimedKeyOrder))
            ELSE IF SelectSeq(Values(m), CarriesVideo) # <<>>
            THEN SelectSeq(Values(m), CarriesVideo)
            ELSE Values(m)

(* segments a and b are in one paragraph *)
SamePara(md, a, b) ==
    \E p \in 1..Len(md) :
        /\ \E x \in 1..Len(md[p]) : md[p][x] = a
        /\ \E y \in 1..Len(md[p]) : md[p][y] = b

RECURSIVE Flatten(_)
Flatten(md) == IF md = <<>> THEN <<>> ELSE md[1] \o Flatten(Tail(md))

(* C28 as stated: for non-decreasing start times two consecutive segments
   are in the same paragraph exactly when floor(start / 300 s) is the same
   for both, and the paragraphs in order hold every segment text exactly once
   in the order of the input. *)
C28_FiveMinuteParagraphs ==
    (prog = "F" /\ pc = "fmt_ret") =>
        /\ \A i \in 1..(Len(h.starts) - 1) :
              SamePara(h.md, i, i + 1) <=>
                  (h.starts[i] \div 300) = (h.starts[i + 1] \div 300)
        /\ Flatten(h.md) = [i \in 1..Len(h.starts) |-> i]

====
